---------------------------- MODULE Spec2Model ----------------------------
(***************************************************************************)
(* A model of gpst.c: the GlobalProtect SSL tunnel of OpenConnect.         *)
(*   parse_cookie   the raw cookie string -> vpninfo->cookies              *)
(*   gpst_connect   the GET-tunnel handshake over the HTTPS transport      *)
(*   gpst_mainloop  one wake-up: read phase, write retry, queue service,   *)
(*                  reconnect                                              *)
(* Text is a sequence of one-character strings, frame bytes are 0..255.    *)
(***************************************************************************)
EXTENDS Integers, Sequences, FiniteSets, TLC

VARIABLES
    cookie,           \* vpninfo->cookie: the raw cookie string
    cookies,          \* vpninfo->cookies: list of [option, value]
    ssl_fd,           \* vpninfo->ssl_fd: -1 when the transport is closed
    monitored,        \* the events the transport is registered for
    ip_info,          \* vpninfo->ip_info: addr, netmask, mtu
    disable_ipv6,     \* set by openconnect_disable_ipv6
    cstp_pkt,         \* vpninfo->cstp_pkt: the receive buffer, or NULL
    incoming_queue,   \* vpninfo->incoming_queue
    outgoing_queue,   \* vpninfo->outgoing_queue
    current_ssl_pkt,  \* vpninfo->current_ssl_pkt: the in-flight packet, or NULL
    dtls_state,       \* vpninfo->dtls_state
    quit_reason,      \* vpninfo->quit_reason
    ssl_times,        \* vpninfo->ssl_times: last_rx, last_tx
    now,              \* the clock read by time(NULL)
    pc,               \* where the control flow is
    work_done,        \* gpst_mainloop's local work_done (0 outside a call)
    mainloop_ret,     \* what the gpst_mainloop call that just returned gave its caller
    lastRead,         \* history: the ssl_nonblock_read made by the last step, if any
    lastWrite,        \* history: the ssl_nonblock_write made by the last step, if any
    last_connect,     \* history: the gpst_connect call made by the last step, if any
    svc,              \* history: the queue service test made by the last step, if any
    blocked,          \* history: the write attempt that returned 0 and awaits its retry
    enqlog,           \* history: every packet the host enqueued, in order
    deqlog,           \* history: every packet dequeue_packet returned, in order
    txlog,            \* history: every frame reported fully written, in order
    carried,          \* history: the packet in flight when a write failed and
                      \*          the reconnect then succeeded
    firstTx,          \* history: the first write attempt on the current transport
    deq_busy,         \* history: a packet was dequeued over a non-empty in-flight slot
    entry,            \* history: the queues and the slot as the wake-up found them
    codec             \* the packet taken through encoding, write and read, or NULL

sessVars == <<cookie, cookies, ssl_fd, monitored, ip_info, disable_ipv6>>
loopVars == <<cstp_pkt, incoming_queue, outgoing_queue, current_ssl_pkt,
              dtls_state, quit_reason, ssl_times, now, pc, work_done, mainloop_ret>>
evVars == <<lastRead, lastWrite, last_connect, svc>>
logVars == <<blocked, enqlog, deqlog, txlog, carried, firstTx, deq_busy>>
auxVars == <<entry, codec>>
vars == <<sessVars, loopVars, evVars, logVars, auxVars>>

\* the null pointer: to a packet or a record, to text, and the absent quit reason
NULL == [null |-> TRUE]
NoText == <<"(null)">>
NoReason == "(none)"
NoRead == "(no read)"

-----------------------------------------------------------------------------
(* errno values returned negated *)
EINTR == 4
EIO == 5
EINVAL == 22
EPIPE == 32

(* char buf[256] of gpst_connect, and the length handed to ssl_read *)
BufSize == 256
(* the mtu assumed when the MTU cookie is missing or not positive *)
DefaultMTU == 1500
(* the fd number of an open transport *)
OpenFd == 3

NUL == "\\0"

-----------------------------------------------------------------------------
(* Text literals of the source *)
S_USER == <<"U","S","E","R">>
S_AUTH == <<"A","U","T","H">>
S_TUNNEL == <<"T","U","N","N","E","L">>
S_IP == <<"I","P">>
S_MTU == <<"M","T","U">>
S_START_TUNNEL == <<"S","T","A","R","T","_","T","U","N","N","E","L">>
S_HTTP == <<"H","T","T","P","/">>
S_DefaultPath == <<"/","s","s","l","-","t","u","n","n","e","l","-","c","o","n","n","e","c","t",
                   ".","s","s","l","v","p","n">>
S_DefaultIP == <<"0",".","0",".","0",".","0">>
S_Netmask == <<"2","5","5",".","2","5","5",".","2","5","5",".","2","5","5">>

(* the character at p of a C string held in s: past the end is the terminator *)
CharAt(s, p) == IF p >= 1 /\ p <= Len(s) THEN s[p] ELSE NUL

RECURSIVE StrChr(_, _, _)
(* strchr(p, c): the first position >= p holding c before the terminator, 0 for NULL *)
StrChr(s, p, c) ==
    IF CharAt(s, p) = NUL THEN 0
    ELSE IF s[p] = c THEN p
    ELSE StrChr(s, p + 1, c)

RECURSIVE CStr(_, _)
(* the C string starting at p: the characters up to the terminator *)
CStr(s, p) ==
    IF CharAt(s, p) = NUL THEN <<>>
    ELSE <<s[p]>> \o CStr(s, p + 1)

(* isspace *)
IsSpace(c) == c \in {" ", "\t", "\n", "\r"}

RECURSIVE SkipSpace(_, _)
\* the loop that advances p over white space
SkipSpace(s, p) ==
    IF CharAt(s, p) # NUL /\ IsSpace(s[p]) THEN SkipSpace(s, p + 1) ELSE p

RECURSIVE StrNCmp(_, _, _, _)
(* strncmp(a, b, n) from position i on: 0 when equal, 1 when they differ *)
StrNCmp(a, b, n, i) ==
    IF i > n THEN 0
    ELSE IF CharAt(a, i) # CharAt(b, i) THEN 1
    ELSE IF CharAt(a, i) = NUL THEN 0
    ELSE StrNCmp(a, b, n, i + 1)

IsDigit(c) == c \in {"0","1","2","3","4","5","6","7","8","9"}

DigitVal(c) ==
    CASE c = "0" -> 0 [] c = "1" -> 1 [] c = "2" -> 2 [] c = "3" -> 3 [] c = "4" -> 4
      [] c = "5" -> 5 [] c = "6" -> 6 [] c = "7" -> 7 [] c = "8" -> 8 [] c = "9" -> 9

RECURSIVE AtoiDigits(_, _, _)
AtoiDigits(s, p, acc) ==
    IF IsDigit(CharAt(s, p)) THEN AtoiDigits(s, p + 1, acc * 10 + DigitVal(s[p])) ELSE acc

(* atoi: leading white space, an optional sign, then decimal digits *)
Atoi(s) ==
    LET p == SkipSpace(s, 1)
    IN  IF CharAt(s, p) = "-" THEN 0 - AtoiDigits(s, p + 1, 0)
        ELSE IF CharAt(s, p) = "+" THEN AtoiDigits(s, p + 1, 0)
        ELSE AtoiDigits(s, p, 0)

-----------------------------------------------------------------------------
(* The cookie store *)

HasCookie(store, option) == \E i \in 1..Len(store) : store[i].option = option

(* http_add_cookie(vpninfo, option, value, 0): an option already in the store
   keeps its value; a new one is appended *)
http_add_cookie(store, option, value) ==
    IF HasCookie(store, option) THEN store
    ELSE Append(store, [option |-> option, value |-> value])

RECURSIVE ParseLoop(_, _, _)
(* the while loop of parse_cookie, with p a position in the raw string s
   (0 for NULL); the string is edited in place *)
ParseLoop(s, store, p) ==
    IF p = 0 \/ CharAt(s, p) = NUL
    THEN [ret |-> 0, cookie |-> s, cookies |-> store]
    ELSE LET semicolon == StrChr(s, p, ";")
             s1 == IF semicolon # 0 THEN [s EXCEPT ![semicolon] = NUL] ELSE s
             equals == StrChr(s1, p, "=")
         IN  IF equals = 0
             THEN [ret |-> 0 - EINVAL, cookie |-> s1, cookies |-> store]
             ELSE LET s2 == [s1 EXCEPT ![equals] = NUL]
                      store2 == http_add_cookie(store, CStr(s2, p), CStr(s2, equals + 1))
                      s3 == [s2 EXCEPT ![equals] = "="]
                  IN  IF semicolon = 0
                      THEN [ret |-> 0, cookie |-> s3, cookies |-> store2]
                      ELSE LET s4 == [s3 EXCEPT ![semicolon] = ";"]
                           IN  ParseLoop(s4, store2, SkipSpace(s4, semicolon + 1))

parse_cookie(raw, store) == ParseLoop(raw, store, 1)

RECURSIVE LastValue(_, _, _, _)
(* the for loop of gpst_connect for one option: the value of the last cookie
   of that name, dflt when there is none *)
LastValue(store, option, i, dflt) ==
    IF i > Len(store) THEN dflt
    ELSE LastValue(store, option, i + 1,
                   IF store[i].option = option THEN store[i].value ELSE dflt)

-----------------------------------------------------------------------------
(* gpst_connect *)

Min(a, b) == IF a < b THEN a ELSE b

(* s followed by filler up to n characters *)
Pad(s, n, c) == [i \in 1..n |-> IF i <= Len(s) THEN s[i] ELSE c]

(* buf_append_urlencoded: unreserved characters as they are, any other one
   as a percent escape *)
Unreserved == {"a","b","t","u","v","0","1","2","3","4","5","6","7","8","9","-","_",".","~"}

HexOf(c) == CASE c = " " -> <<"2","0">> [] c = "@" -> <<"4","0">> [] c = "/" -> <<"2","f">>
              [] OTHER -> <<"?","?">>

RECURSIVE buf_append_urlencoded(_, _)
buf_append_urlencoded(s, i) ==
    IF i > Len(s) THEN <<>>
    ELSE (IF s[i] \in Unreserved THEN <<s[i]>> ELSE <<"%">> \o HexOf(s[i]))
         \o buf_append_urlencoded(s, i + 1)

(* the request line: GET <path>?user=<user>&authcookie=<auth> HTTP/1.1\r\n\r\n *)
Request(tunnel_path, username, authcookie) ==
    <<"G","E","T"," ">> \o tunnel_path \o <<"?","u","s","e","r","=">>
    \o buf_append_urlencoded(username, 1)
    \o <<"&","a","u","t","h","c","o","o","k","i","e","=">> \o authcookie
    \o <<" ","H","T","T","P","/","1",".","1","\r","\n","\r","\n">>

(* the for loop over vpninfo->cookies: the locals it leaves *)
ExtractCookies(store) ==
    [tunnel_path |-> LastValue(store, S_TUNNEL, 1, NoText),
     username    |-> LastValue(store, S_USER, 1, NoText),
     authcookie  |-> LastValue(store, S_AUTH, 1, NoText),
     ipaddr      |-> LastValue(store, S_IP, 1, NoText),
     mtu         |-> IF HasCookie(store, S_MTU)
                     THEN Atoi(LastValue(store, S_MTU, 1, NoText)) ELSE -1]

(* ApplyDefaults with the MTU test reading mtu == 0 *)
ApplyDefaults_ZeroOnly(x) ==
    [x EXCEPT !.tunnel_path = IF @ = NoText THEN S_DefaultPath ELSE @,
              !.ipaddr = IF @ = NoText THEN S_DefaultIP ELSE @,
              !.mtu = IF @ = 0 \/ @ = -1 THEN DefaultMTU ELSE @]

(* the three defaults applied after the credentials test *)
ApplyDefaults(x) ==
    [x EXCEPT !.tunnel_path = IF @ = NoText THEN S_DefaultPath ELSE @,
              !.ipaddr = IF @ = NoText THEN S_DefaultIP ELSE @,
              !.mtu = IF @ <= 0 THEN DefaultMTU ELSE @]

(* ssl_read(vpninfo, buf, 256): an error code, or the first bytes of what the
   peer sent copied over the start of buf, the rest of buf left as it was *)
SslRead(rd, stale) ==
    IF rd.k = "err" THEN [ret |-> rd.code, buf |-> stale]
    ELSE LET n == Min(Len(rd.bytes), BufSize)
         IN  [ret |-> n,
              buf |-> [i \in 1..BufSize |-> IF i <= n THEN rd.bytes[i] ELSE stale[i]]]

(* the if / else-if chain on the response *)
ClassifyResponse(buf, ret) ==
    IF StrNCmp(buf, S_START_TUNNEL, 12, 1) = 0 THEN [ret |-> 0, err |-> "none"]
    ELSE IF StrNCmp(buf, S_HTTP, 5, 1) = 0 THEN [ret |-> 0 - EINVAL, err |-> "GatewayHttpError"]
    ELSE IF ret = 0 THEN [ret |-> 0 - EPIPE, err |-> "PeerClosed"]
    ELSE [ret |-> 0 - EINVAL, err |-> "UnexpectedResponse"]

(* what a failing ssl_read makes gpst_connect do: return at once *)
ReadFailure(st, x, req, r) ==
    [ret |-> IF r.ret = 0 - EINTR THEN r.ret ELSE 0 - EINVAL,
     err |-> IF r.ret = 0 - EINTR THEN "Interrupted" ELSE "ReadError",
     stage |-> "read", opened |-> TRUE, sent |-> req, rd |-> r.ret, resp |-> <<>>,
     locals |-> x, registered |-> FALSE,
     cookie |-> st.cookie, cookies |-> st.cookies, ssl_fd |-> OpenFd,
     monitored |-> st.monitored, ip_info |-> st.ip_info, disable_ipv6 |-> TRUE]

(* the out: label: close on failure, register for monitoring on success *)
Out(st, x, req, r, c) ==
    [ret |-> c.ret, err |-> c.err,
     stage |-> "classified", opened |-> TRUE, sent |-> req, rd |-> r.ret,
     resp |-> SubSeq(r.buf, 1, r.ret), locals |-> x, registered |-> (c.ret >= 0),
     cookie |-> st.cookie, cookies |-> st.cookies,
     ssl_fd |-> IF c.ret < 0 THEN -1 ELSE OpenFd,
     monitored |-> IF c.ret < 0 THEN {} ELSE {"read", "except"},
     ip_info |-> IF c.ret = 0
                 THEN [addr |-> x.ipaddr, netmask |-> S_Netmask, mtu |-> x.mtu]
                 ELSE st.ip_info,
     disable_ipv6 |-> TRUE]

(* gpst_connect from the open of the transport on *)
Handshake(st, x, in) ==
    IF in.open_ret # 0
    THEN [ret |-> in.open_ret, err |-> "TransportError",
          stage |-> "open", opened |-> FALSE, sent |-> NoText, rd |-> NoRead, resp |-> <<>>,
          locals |-> x, registered |-> FALSE,
          cookie |-> st.cookie, cookies |-> st.cookies, ssl_fd |-> st.ssl_fd,
          monitored |-> st.monitored, ip_info |-> st.ip_info, disable_ipv6 |-> TRUE]
    ELSE LET req == Request(x.tunnel_path, x.username, x.authcookie)
             r == SslRead(in.rd, in.stale)
         IN  IF r.ret < 0 THEN ReadFailure(st, x, req, r)
             ELSE Out(st, x, req, r, ClassifyResponse(r.buf, r.ret))

(* gpst_connect from the cookie loop on *)
Negotiate(st, in) ==
    LET x == ExtractCookies(st.cookies)
    IN  IF x.username = NoText \/ x.authcookie = NoText
        THEN [ret |-> 0 - EINVAL, err |-> "MissingCredentials",
              stage |-> "credentials", opened |-> FALSE, sent |-> NoText, rd |-> NoRead,
              resp |-> <<>>, locals |-> x, registered |-> FALSE,
              cookie |-> st.cookie, cookies |-> st.cookies, ssl_fd |-> st.ssl_fd,
              monitored |-> st.monitored, ip_info |-> st.ip_info,
              disable_ipv6 |-> st.disable_ipv6]
        ELSE Handshake(st, ApplyDefaults(x), in)

(* gpst_connect without the test of vpninfo->cookies: the cookie string is
   parsed at every call *)
gpst_connect_AlwaysParse(st, in) ==
    LET p == parse_cookie(st.cookie, st.cookies)
    IN  IF p.ret # 0
        THEN [ret |-> p.ret, err |-> "MalformedCookie",
              stage |-> "parse", opened |-> FALSE, sent |-> NoText, rd |-> NoRead,
              resp |-> <<>>, locals |-> NULL, registered |-> FALSE,
              cookie |-> p.cookie, cookies |-> p.cookies, ssl_fd |-> st.ssl_fd,
              monitored |-> st.monitored, ip_info |-> st.ip_info,
              disable_ipv6 |-> st.disable_ipv6]
        ELSE Negotiate([st EXCEPT !.cookie = p.cookie, !.cookies = p.cookies], in)

(* gpst_connect(vpninfo): st is the session before the call, in what the
   transport does (open_ret, rd) and what the stack held where buf lies
   (stale); the result is the session after the call, the value returned and
   what the call did *)
gpst_connect(st, in) ==
    IF st.cookies = <<>>
    THEN LET p == parse_cookie(st.cookie, st.cookies)
         IN  IF p.ret # 0
             THEN [ret |-> p.ret, err |-> "MalformedCookie",
                   stage |-> "parse", opened |-> FALSE, sent |-> NoText, rd |-> NoRead,
                   resp |-> <<>>, locals |-> NULL, registered |-> FALSE,
                   cookie |-> p.cookie, cookies |-> p.cookies, ssl_fd |-> st.ssl_fd,
                   monitored |-> st.monitored, ip_info |-> st.ip_info,
                   disable_ipv6 |-> st.disable_ipv6]
             ELSE Negotiate([st EXCEPT !.cookie = p.cookie, !.cookies = p.cookies], in)
    ELSE Negotiate(st, in)

-----------------------------------------------------------------------------
(* Packets and the 16-byte header *)

Magic == 439041101      \* 0x1a2b3c4d
EtherTypeIPv4 == 2048   \* 0x0800
HdrLen == 16
\* the payload room of the receive buffer: int len = 65536
RxCap == 65536

store_be32(v) == <<(v \div 16777216) % 256, (v \div 65536) % 256, (v \div 256) % 256, v % 256>>
store_be16(v) == <<(v \div 256) % 256, v % 256>>
store_le32(v) == <<v % 256, (v \div 256) % 256, (v \div 65536) % 256, (v \div 16777216) % 256>>
load_be32(h, o) == ((h[o + 1] * 256 + h[o + 2]) * 256 + h[o + 3]) * 256 + h[o + 4]
load_be16(h, o) == h[o + 1] * 256 + h[o + 2]
load_le32(h, o) == ((h[o + 4] * 256 + h[o + 3]) * 256 + h[o + 2]) * 256 + h[o + 1]

ZeroHdr == [i \in 1..HdrLen |-> 0]

(* StoreHeader with the length stored low byte first *)
StoreHeader_LengthLE(this) ==
    [this EXCEPT !.hdr = store_be32(Magic) \o store_be16(EtherTypeIPv4)
                         \o <<this.len % 256, (this.len \div 256) % 256>>
                         \o store_le32(1) \o store_le32(0)]

(* the "store header" lines of the queue service, on packet this *)
StoreHeader(this) ==
    [this EXCEPT !.hdr = store_be32(Magic) \o store_be16(EtherTypeIPv4)
                         \o store_be16(this.len) \o store_le32(1) \o store_le32(0)]

(* the bytes ssl_nonblock_write is handed: len + 16 bytes from gpst.hdr on *)
WriteBytes(pkt) == pkt.hdr \o SubSeq(pkt.data, 1, pkt.len)

(* the receive buffer after a read of Len(bytes) bytes into gpst.hdr *)
ReadInto(buf, bytes) ==
    [hdr  |-> [i \in 1..HdrLen |-> IF i <= Len(bytes) THEN bytes[i] ELSE buf.hdr[i]],
     data |-> IF Len(bytes) > HdrLen THEN SubSeq(bytes, HdrLen + 1, Len(bytes)) ELSE buf.data,
     len  |-> buf.len]

(* ReadVerdict with a short read sent to do_reconnect like a read error *)
ReadVerdict_ShortIsError(len, hdr) ==
    IF len = 0 THEN "none"
    ELSE IF len < 16 THEN "error"
    ELSE IF load_be32(hdr, 0) # Magic THEN "unknown"
    ELSE IF load_be16(hdr, 4) # EtherTypeIPv4 THEN "unknown"
    ELSE IF len # 16 + load_be16(hdr, 6) THEN "unknown"
    ELSE IF load_le32(hdr, 8) # 1 \/ load_le32(hdr, 12) # 0 THEN "unknown"
    ELSE "accept"

(* ReadVerdict without the test of the last 8 bytes of the header *)
ReadVerdict_NoTrailerTest(len, hdr) ==
    IF len = 0 THEN "none"
    ELSE IF len < 0 THEN "error"
    ELSE IF len < 16 THEN "short"
    ELSE IF load_be32(hdr, 0) # Magic THEN "unknown"
    ELSE IF load_be16(hdr, 4) # EtherTypeIPv4 THEN "unknown"
    ELSE IF len # 16 + load_be16(hdr, 6) THEN "unknown"
    ELSE "accept"

(* what the read phase does with a read result: the tests after
   ssl_nonblock_read and the header check *)
ReadVerdict(len, hdr) ==
    IF len = 0 THEN "none"
    ELSE IF len < 0 THEN "error"
    ELSE IF len < 16 THEN "short"
    ELSE IF load_be32(hdr, 0) # Magic THEN "unknown"
    ELSE IF load_be16(hdr, 4) # EtherTypeIPv4 THEN "unknown"
    ELSE IF len # 16 + load_be16(hdr, 6) THEN "unknown"
    ELSE IF load_le32(hdr, 8) # 1 \/ load_le32(hdr, 12) # 0 THEN "unknown"
    ELSE "accept"

(* WriteVerdict with a write error handled like a transport that is not
   writable *)
WriteVerdict_NoReconnect(ret, pkt) ==
    IF ret <= 0 THEN "blocked"
    ELSE IF ret # pkt.len + 16 THEN "short"
    ELSE "done"

(* what the write phase does with a write result *)
WriteVerdict(ret, pkt) ==
    IF ret < 0 THEN "reconnect"
    ELSE IF ret = 0 THEN "blocked"
    ELSE IF ret # pkt.len + 16 THEN "short"
    ELSE "done"

(* SlotAfterWrite with the packet freed when the write would block *)
SlotAfterWrite_FreeOnBlock(ret, pkt) ==
    IF WriteVerdict(ret, pkt) \in {"done", "blocked"} THEN NULL ELSE pkt

(* SlotAfterWrite with the packet freed when the write fails *)
SlotAfterWrite_FreeOnError(ret, pkt) ==
    IF WriteVerdict(ret, pkt) \in {"done", "reconnect"} THEN NULL ELSE pkt

(* SlotAfterWrite with the slot not cleared after a full write *)
SlotAfterWrite_Keep(ret, pkt) == pkt

(* the in-flight slot after a write attempt *)
SlotAfterWrite(ret, pkt) == IF WriteVerdict(ret, pkt) = "done" THEN NULL ELSE pkt

(* ServiceNext taking the newest packet of the queue *)
ServiceNext_Last(dtls, queue) ==
    IF dtls # "DTLS_CONNECTED" /\ queue # <<>> THEN StoreHeader(queue[Len(queue)]) ELSE NULL

(* ServiceNext without the test of dtls_state *)
ServiceNext_NoDtlsTest(dtls, queue) ==
    IF queue # <<>> THEN StoreHeader(Head(queue)) ELSE NULL

(* ServiceNext with the test of dtls_state the wrong way round *)
ServiceNext_DtlsInverted(dtls, queue) ==
    IF dtls = "DTLS_CONNECTED" /\ queue # <<>> THEN StoreHeader(Head(queue)) ELSE NULL

(* the test of the queue service loop: the packet it dequeues and encodes,
   NULL when it stops *)
ServiceNext(dtls, queue) ==
    IF dtls # "DTLS_CONNECTED" /\ queue # <<>> THEN StoreHeader(Head(queue)) ELSE NULL

-----------------------------------------------------------------------------
(* Bounds and the inputs drawn at each step *)

MaxEnq == 3       \* packets the host enqueues in a run
MaxInQ == 1       \* packets waiting on the inbound queue
MaxTime == 1      \* ticks of the clock
MaxRxQ == 2       \* packets waiting on the inbound queue when only the read side runs

C_Plain == <<"U","S","E","R","=","u",";","A","U","T","H","=","t">>
C_Full ==
    <<"U","S","E","R","=","a"," ","b",";"," ","A","U","T","H","=","t",";"," ",
      "I","P","=","1",".","2",";","M","T","U","=","1","4","0","0",";",
      "T","U","N","N","E","L","=","/","t">>
C_MtuZero == C_Plain \o <<";","M","T","U","=","0">>
C_MtuNeg == C_Plain \o <<";","M","T","U","=","-","5">>
C_NoUser == <<"A","U","T","H","=","t">>
C_NoAuth == <<"U","S","E","R","=","u">>
C_Malformed == <<"U","S","E","R","=","u",";","X",";","A","U","T","H","=","t">>
C_Twice == <<"U","S","E","R","=","a",";","U","S","E","R","=","b",";","A","U","T","H","=","t">>

(* the raw cookie strings a session may start with *)
RawCookies ==
    { C_Plain, C_Full, C_MtuZero, C_MtuNeg, C_NoUser, C_NoAuth, C_Malformed, C_Twice, <<>> }

(* what the stack may hold where buf lies when gpst_connect is entered *)
StaleBufs ==
    { Pad(<<>>, BufSize, NUL), Pad(S_START_TUNNEL, BufSize, NUL), Pad(S_HTTP, BufSize, NUL) }

R_Forbidden == <<"H","T","T","P","/","1",".","1"," ","4","0","3">>
R_Garbage == <<"g","a","r","b","a","g","e">>
R_Start == <<"S","T","A","R","T">>

HandshakeReads ==
    { [k |-> "err", code |-> 0 - EINTR], [k |-> "err", code |-> 0 - EIO] }
    \cup { [k |-> "data", bytes |-> b] :
             b \in { <<>>, S_START_TUNNEL, Pad(S_START_TUNNEL, BufSize + 1, "x"),
                     R_Start, R_Forbidden, R_Garbage } }

(* every behaviour of the transport during gpst_connect *)
ConnectInputs ==
    { [open_ret |-> o, rd |-> r, stale |-> b] :
        o \in {0, 0 - EIO}, r \in HandshakeReads, b \in StaleBufs }

(* the behaviours of the transport drawn while the main loop runs: the
   gateway answers START_TUNNEL, the gateway refuses, the read fails *)
LoopConnectInputs ==
    { [open_ret |-> 0, rd |-> r, stale |-> Pad(<<>>, BufSize, NUL)] :
        r \in { [k |-> "data", bytes |-> S_START_TUNNEL],
                [k |-> "data", bytes |-> R_Forbidden],
                [k |-> "err", code |-> 0 - EIO] } }

(* the payload of the k-th packet the host sends: k - 1 bytes *)
TxPayload(k) == [i \in 1..(k - 1) |-> 68 + k]

(* what the peer may have sent when the read phase reads: frames written out
   byte by byte, good and bad *)
GoodFrames ==
    { <<26, 43, 60, 77, 8, 0, 0, 0, 1, 0, 0, 0, 0, 0, 0, 0>>,
      <<26, 43, 60, 77, 8, 0, 0, 2, 1, 0, 0, 0, 0, 0, 0, 0, 69, 9>> }
BadFrames ==
    { <<26, 43, 60, 77, 8>>,                                              \* 5 bytes
      <<26, 43, 60, 77, 8, 0, 0, 0, 1, 0, 0, 0, 0, 0, 0>>,                \* 15 bytes
      <<0, 0, 0, 0, 8, 0, 0, 0, 1, 0, 0, 0, 0, 0, 0, 0>>,                 \* magic
      <<26, 43, 60, 77, 134, 221, 0, 0, 1, 0, 0, 0, 0, 0, 0, 0>>,         \* ethertype
      <<26, 43, 60, 77, 8, 0, 0, 10, 1, 0, 0, 0, 0, 0, 0, 0, 1, 2, 3, 4>>,  \* length
      <<26, 43, 60, 77, 8, 0, 0, 0, 0, 0, 0, 1, 0, 0, 0, 0>>,             \* trailer one
      <<26, 43, 60, 77, 8, 0, 0, 0, 1, 0, 0, 0, 1, 0, 0, 0>> }            \* trailer zero

ReadInputs ==
    { [k |-> "none"], [k |-> "err", code |-> 0 - EIO] }
    \cup { [k |-> "data", bytes |-> b] : b \in GoodFrames \cup BadFrames }

DtlsStates == {"DTLS_NOSECRET", "DTLS_CONNECTED"}

-----------------------------------------------------------------------------
Session == [cookie |-> cookie, cookies |-> cookies, ssl_fd |-> ssl_fd,
            monitored |-> monitored, ip_info |-> ip_info, disable_ipv6 |-> disable_ipv6]

NoCall == [called |-> FALSE]

(* the session fields as a gpst_connect call leaves them, and the record of
   the call *)
ApplyConnect(r, by) ==
    /\ cookie' = r.cookie
    /\ cookies' = r.cookies
    /\ ssl_fd' = r.ssl_fd
    /\ monitored' = r.monitored
    /\ ip_info' = r.ip_info
    /\ disable_ipv6' = r.disable_ipv6
    /\ last_connect' = [called |-> TRUE, by |-> by, ret |-> r.ret, err |-> r.err,
                        stage |-> r.stage, opened |-> r.opened, sent |-> r.sent,
                        rd |-> r.rd, resp |-> r.resp, locals |-> r.locals,
                        registered |-> r.registered, fd_after |-> r.ssl_fd,
                        ip_before |-> ip_info, cookie_before |-> cookie,
                        cookies_before |-> cookies]

InitWith(raws) ==
    /\ cookie \in raws
    /\ cookies = <<>>
    /\ ssl_fd = -1
    /\ monitored = {}
    /\ ip_info = [addr |-> NoText, netmask |-> NoText, mtu |-> 0]
    /\ disable_ipv6 = FALSE
    /\ cstp_pkt = NULL
    /\ incoming_queue = <<>>
    /\ outgoing_queue = <<>>
    /\ current_ssl_pkt = NULL
    /\ dtls_state = "DTLS_NOSECRET"
    /\ quit_reason = NoReason
    /\ ssl_times = [last_rx |-> 0, last_tx |-> 0]
    /\ now = 0
    /\ pc = "start"
    /\ work_done = 0
    /\ mainloop_ret = NULL
    /\ lastRead = NULL
    /\ lastWrite = NULL
    /\ last_connect = NoCall
    /\ svc = NULL
    /\ blocked = NULL
    /\ enqlog = <<>>
    /\ deqlog = <<>>
    /\ txlog = <<>>
    /\ carried = 0
    /\ firstTx = 0
    /\ deq_busy = FALSE
    /\ entry = NULL
    /\ codec = NULL

Init == InitWith({C_Full})

(* the host makes the first connection, and makes it again when it failed:
   gpst_connect; the main loop starts once it has succeeded *)
ConnectWith(inputs) ==
    /\ pc = "start"
    /\ \E in \in inputs :
         LET r == gpst_connect(Session, in)
         IN  /\ ApplyConnect(r, "initial")
             /\ pc' = IF r.ret = 0 THEN "idle" ELSE "start"
    /\ UNCHANGED <<cstp_pkt, incoming_queue, outgoing_queue, current_ssl_pkt, dtls_state,
                   quit_reason, ssl_times, now, work_done, mainloop_ret>>
    /\ UNCHANGED <<lastRead, lastWrite, svc>>
    /\ UNCHANGED logVars
    /\ UNCHANGED auxVars

InitialConnect == ConnectWith(LoopConnectInputs)

Running == pc = "idle" /\ quit_reason = NoReason

(* a step of the host: it has taken what the last call returned, and no call
   on the transport is made *)
HostStep ==
    /\ mainloop_ret' = NULL
    /\ lastRead' = NULL
    /\ lastWrite' = NULL
    /\ last_connect' = NoCall
    /\ svc' = NULL
    /\ UNCHANGED <<blocked, deqlog, txlog, carried, firstTx, deq_busy>>

(* the host queues a packet for sending *)
HostEnqueue ==
    /\ Running
    /\ Len(enqlog) < MaxEnq
    /\ LET payload == TxPayload(Len(enqlog) + 1)
           pkt == [id |-> Len(enqlog) + 1, len |-> Len(payload), hdr |-> ZeroHdr,
                   data |-> payload]
       IN  /\ outgoing_queue' = Append(outgoing_queue, pkt)
           /\ enqlog' = Append(enqlog, pkt)
    /\ HostStep
    /\ entry' = NULL
    /\ UNCHANGED codec
    /\ UNCHANGED sessVars
    /\ UNCHANGED <<cstp_pkt, incoming_queue, current_ssl_pkt, dtls_state, quit_reason,
                   ssl_times, now, pc, work_done>>

(* the host takes a packet off the inbound queue *)
HostConsume ==
    /\ Running
    /\ incoming_queue # <<>>
    /\ incoming_queue' = Tail(incoming_queue)
    /\ HostStep
    /\ entry' = NULL
    /\ UNCHANGED codec
    /\ UNCHANGED sessVars
    /\ UNCHANGED <<cstp_pkt, outgoing_queue, current_ssl_pkt, dtls_state, quit_reason,
                   ssl_times, now, pc, work_done, enqlog>>

(* the parallel channel comes up or goes down *)
HostSetDtls ==
    /\ Running
    /\ \E d \in DtlsStates \ {dtls_state} : dtls_state' = d
    /\ HostStep
    /\ entry' = NULL
    /\ UNCHANGED codec
    /\ UNCHANGED sessVars
    /\ UNCHANGED <<cstp_pkt, incoming_queue, outgoing_queue, current_ssl_pkt, quit_reason,
                   ssl_times, now, pc, work_done, enqlog>>

(* the transport is closed between two wake-ups *)
HostClose ==
    /\ Running
    /\ ssl_fd # -1
    /\ ssl_fd' = -1
    /\ monitored' = {}
    /\ HostStep
    /\ entry' = NULL
    /\ UNCHANGED codec
    /\ UNCHANGED <<cookie, cookies, ip_info, disable_ipv6>>
    /\ UNCHANGED <<cstp_pkt, incoming_queue, outgoing_queue, current_ssl_pkt, dtls_state,
                   quit_reason, ssl_times, now, pc, work_done, enqlog>>

(* time passes *)
Tick ==
    /\ Running
    /\ now < MaxTime
    /\ now' = now + 1
    /\ HostStep
    /\ entry' = NULL
    /\ UNCHANGED codec
    /\ UNCHANGED sessVars
    /\ UNCHANGED <<cstp_pkt, incoming_queue, outgoing_queue, current_ssl_pkt, dtls_state,
                   quit_reason, ssl_times, pc, work_done, enqlog>>

-----------------------------------------------------------------------------
(* gpst_mainloop, one step per call on the transport *)

(* ssl_nonblock_read(vpninfo, hdr, len + 16): 0 when nothing is there, a
   negative error, or the number of bytes read *)
ReadResult(in) ==
    CASE in.k = "none" -> 0
      [] in.k = "err" -> in.code
      [] in.k = "data" -> Min(Len(in.bytes), RxCap + 16)

(* the receive buffer as malloc gives it *)
FreshBuf == [hdr |-> ZeroHdr, data |-> <<>>, len |-> 0]

(* the packet queued on the inbound queue: cstp_pkt with len = payload_len *)
AcceptPacket(buf) == [buf EXCEPT !.len = load_be16(buf.hdr, 6)]

(* the read of in passes every test of the read phase *)
WouldAccept(in) ==
    /\ in.k = "data"
    /\ ReadResult(in) >= HdrLen
    /\ ReadVerdict(ReadResult(in), SubSeq(in.bytes, 1, HdrLen)) = "accept"

(* return v: the call is over and its locals are gone *)
Return(v) ==
    /\ pc' = "idle"
    /\ mainloop_ret' = [v |-> v]
    /\ work_done' = 0

(* the queue service loop entered with the in-flight slot holding slot and
   the local work_done holding wd: it dequeues and encodes one packet and
   goes to handle_outgoing, or returns work_done *)
ServiceQueue(slot, wd) ==
    LET this == ServiceNext(dtls_state, outgoing_queue)
    IN  IF this # NULL
        THEN /\ current_ssl_pkt' = this
             /\ outgoing_queue' = Tail(outgoing_queue)
             /\ deqlog' = Append(deqlog, Head(outgoing_queue))
             /\ deq_busy' = (deq_busy \/ slot # NULL)
             /\ svc' = [dtls |-> dtls_state, qlen |-> Len(outgoing_queue), took |-> TRUE]
             /\ pc' = "handle_outgoing"
             /\ work_done' = wd
             /\ UNCHANGED mainloop_ret
        ELSE /\ current_ssl_pkt' = IF dtls_state # "DTLS_CONNECTED" THEN NULL ELSE slot
             /\ svc' = [dtls |-> dtls_state, qlen |-> Len(outgoing_queue), took |-> FALSE]
             /\ Return(wd)
             /\ UNCHANGED <<outgoing_queue, deqlog, deq_busy>>

(* the end of the read phase: the test of current_ssl_pkt *)
EndRead ==
    IF current_ssl_pkt # NULL
    THEN /\ pc' = "handle_outgoing"
         /\ svc' = NULL
         /\ UNCHANGED <<current_ssl_pkt, outgoing_queue, deqlog, mainloop_ret, deq_busy,
                        work_done>>
    ELSE ServiceQueue(current_ssl_pkt, work_done)

(* entry of gpst_mainloop; with mark, the queues and the slot found are
   recorded *)
WakeupWith(mark) ==
    /\ Running
    /\ work_done' = 0
    /\ pc' = IF ssl_fd = -1 THEN "do_reconnect" ELSE "read"
    /\ HostStep
    /\ entry' = IF mark THEN [oq |-> outgoing_queue, slot |-> current_ssl_pkt,
                              iq |-> incoming_queue]
                ELSE NULL
    /\ UNCHANGED codec
    /\ UNCHANGED sessVars
    /\ UNCHANGED <<cstp_pkt, incoming_queue, outgoing_queue, current_ssl_pkt, dtls_state,
                   quit_reason, ssl_times, now, enqlog>>

Wakeup == WakeupWith(FALSE)

(* one turn of the read loop, the transport answering one of inputs; the
   peer sends no further frame while cap frames wait on the inbound queue *)
ReadWith(inputs, cap) ==
    /\ pc = "read"
    /\ \E alloc_ok \in BOOLEAN, in \in inputs :
         /\ WouldAccept(in) => Len(incoming_queue) < cap
         /\ IF cstp_pkt = NULL /\ ~alloc_ok
            THEN /\ EndRead
                 /\ lastRead' = NULL
                 /\ UNCHANGED <<cstp_pkt, incoming_queue, quit_reason, ssl_times>>
            ELSE LET buf0 == IF cstp_pkt = NULL THEN FreshBuf ELSE cstp_pkt
                     len == ReadResult(in)
                     got == IF len > 0 THEN SubSeq(in.bytes, 1, len) ELSE <<>>
                     buf1 == IF len > 0 THEN ReadInto(buf0, got) ELSE buf0
                     verdict == ReadVerdict(len, buf1.hdr)
                 IN  /\ lastRead' = [res |-> len, bytes |-> got]
                     /\ CASE verdict = "none" ->
                               /\ cstp_pkt' = buf1
                               /\ EndRead
                               /\ UNCHANGED <<incoming_queue, quit_reason, ssl_times>>
                          [] verdict = "error" ->
                               /\ cstp_pkt' = buf1
                               /\ pc' = "do_reconnect"
                               /\ svc' = NULL
                               /\ UNCHANGED <<incoming_queue, outgoing_queue, current_ssl_pkt,
                                              quit_reason, ssl_times, work_done, mainloop_ret,
                                              deqlog, deq_busy>>
                          [] verdict = "short" ->
                               /\ cstp_pkt' = buf1
                               /\ quit_reason' = "Short packet received"
                               /\ Return(1)
                               /\ svc' = NULL
                               /\ UNCHANGED <<incoming_queue, outgoing_queue, current_ssl_pkt,
                                              ssl_times, deqlog, deq_busy>>
                          [] verdict = "unknown" ->
                               /\ cstp_pkt' = buf1
                               /\ quit_reason' = "Unknown packet received"
                               /\ Return(1)
                               /\ svc' = NULL
                               /\ UNCHANGED <<incoming_queue, outgoing_queue, current_ssl_pkt,
                                              ssl_times, deqlog, deq_busy>>
                          [] verdict = "accept" ->
                               /\ ssl_times' = [ssl_times EXCEPT !.last_rx = now]
                               /\ incoming_queue' = Append(incoming_queue, AcceptPacket(buf1))
                               /\ cstp_pkt' = NULL
                               /\ work_done' = 1
                               /\ pc' = "read"
                               /\ svc' = NULL
                               /\ UNCHANGED <<outgoing_queue, current_ssl_pkt, quit_reason,
                                              mainloop_ret, deqlog, deq_busy>>
    /\ lastWrite' = NULL
    /\ last_connect' = NoCall
    /\ UNCHANGED sessVars
    /\ UNCHANGED <<dtls_state, now>>
    /\ UNCHANGED <<blocked, enqlog, txlog, carried, firstTx>>
    /\ UNCHANGED auxVars

ReadStep == ReadWith(ReadInputs, MaxInQ)

(* the peer sends nothing: there is nothing to read, or the read fails *)
QuietReads == { [k |-> "none"], [k |-> "err", code |-> 0 - EIO] }

(* what ssl_nonblock_write may return for n bytes: an error, 0 when the
   transport is not writable, a short count, n *)
WriteKinds == {"err", "block", "short", "full"}

WriteResult(kind, n) ==
    CASE kind = "err" -> 0 - EIO
      [] kind = "block" -> 0
      [] kind = "short" -> n - 1
      [] kind = "full" -> n

(* handle_outgoing: one write attempt of the in-flight packet, the transport
   answering one of kinds *)
WriteWith(kinds) ==
    /\ pc = "handle_outgoing"
    /\ LET pkt == current_ssl_pkt
           n == pkt.len + 16
       IN  \E kind \in kinds :
             LET ret == WriteResult(kind, n)
                 verdict == WriteVerdict(ret, pkt)
                 attempt == [id |-> pkt.id, bytes |-> WriteBytes(pkt), n |-> n,
                             ndeq |-> Len(deqlog)]
             IN  /\ ssl_times' = [ssl_times EXCEPT !.last_tx = now]
                 /\ monitored' = monitored \ {"write"}
                 /\ lastWrite' = [id |-> pkt.id, bytes |-> WriteBytes(pkt), n |-> n,
                                  res |-> ret, prev |-> blocked]
                 /\ blocked' = IF ret = 0 THEN attempt ELSE NULL
                 /\ firstTx' = IF firstTx = 0 THEN pkt.id ELSE firstTx
                 /\ CASE verdict = "reconnect" ->
                           /\ pc' = "do_reconnect"
                           /\ current_ssl_pkt' = SlotAfterWrite(ret, pkt)
                           /\ svc' = NULL
                           /\ UNCHANGED <<outgoing_queue, deqlog, txlog, quit_reason,
                                          mainloop_ret, deq_busy, work_done>>
                      [] verdict = "blocked" ->
                           /\ Return(work_done)
                           /\ current_ssl_pkt' = SlotAfterWrite(ret, pkt)
                           /\ svc' = NULL
                           /\ UNCHANGED <<outgoing_queue, deqlog, txlog, quit_reason, deq_busy>>
                      [] verdict = "short" ->
                           /\ quit_reason' = "Internal error"
                           /\ Return(1)
                           /\ current_ssl_pkt' = SlotAfterWrite(ret, pkt)
                           /\ svc' = NULL
                           /\ UNCHANGED <<outgoing_queue, deqlog, txlog, deq_busy>>
                      [] verdict = "done" ->
                           /\ txlog' = Append(txlog, [id |-> pkt.id, bytes |-> WriteBytes(pkt)])
                           /\ ServiceQueue(SlotAfterWrite(ret, pkt), work_done)
                           /\ UNCHANGED quit_reason
    /\ lastRead' = NULL
    /\ last_connect' = NoCall
    /\ UNCHANGED <<cookie, cookies, ssl_fd, ip_info, disable_ipv6>>
    /\ UNCHANGED <<cstp_pkt, incoming_queue, dtls_state, now>>
    /\ UNCHANGED <<enqlog, carried>>
    /\ UNCHANGED auxVars

WriteStep == WriteWith(WriteKinds)

(* ssl_reconnect: the old transport is closed and the connection is made
   again, once, by gpst_connect *)
ssl_reconnect(st, in) == gpst_connect([st EXCEPT !.ssl_fd = -1, !.monitored = {}], in)

(* do_reconnect *)
ReconnectWith(inputs) ==
    /\ pc = "do_reconnect"
    /\ \E in \in inputs :
         LET r == ssl_reconnect(Session, in)
             afterWrite == lastWrite # NULL
         IN  /\ ApplyConnect(r, IF afterWrite THEN "write"
                                ELSE IF lastRead # NULL THEN "read" ELSE "closed")
             /\ quit_reason' = IF r.ret # 0 THEN "GPST reconnect failed" ELSE quit_reason
             /\ Return(IF r.ret # 0 THEN r.ret ELSE 1)
             /\ firstTx' = IF r.ret = 0 THEN 0 ELSE firstTx
             /\ carried' = IF r.ret # 0 THEN carried
                           ELSE IF afterWrite /\ current_ssl_pkt # NULL THEN current_ssl_pkt.id
                           ELSE IF current_ssl_pkt # NULL /\ current_ssl_pkt.id = carried
                                THEN carried
                           ELSE 0
    /\ lastRead' = NULL
    /\ lastWrite' = NULL
    /\ svc' = NULL
    /\ UNCHANGED <<cstp_pkt, incoming_queue, outgoing_queue, current_ssl_pkt, dtls_state,
                   ssl_times, now>>
    /\ UNCHANGED <<blocked, enqlog, deqlog, txlog, deq_busy>>
    /\ UNCHANGED auxVars

ReconnectStep == ReconnectWith(LoopConnectInputs)

Next ==
    \/ InitialConnect
    \/ HostEnqueue
    \/ HostConsume
    \/ HostSetDtls
    \/ HostClose
    \/ Wakeup
    \/ ReadStep
    \/ WriteStep
    \/ ReconnectStep

Spec == Init /\ [][Next]_vars

(* the session negotiator alone, under every cookie and every behaviour of
   the transport: the first connection, and the reconnect of a wake-up that
   finds the transport closed *)
InitNegotiator == InitWith(RawCookies)

ConnectAny == ConnectWith(ConnectInputs)

ReconnectAny == ReconnectWith(ConnectInputs)

NextNegotiator ==
    \/ ConnectAny
    \/ HostClose
    \/ Wakeup
    \/ ReconnectAny

SpecNegotiator == InitNegotiator /\ [][NextNegotiator]_vars

(* the read side of the main loop with a clock that advances: the host sends
   nothing and takes what arrives *)
ReadInbound == ReadWith(ReadInputs, MaxRxQ)

NextInbound ==
    \/ InitialConnect
    \/ HostConsume
    \/ Tick
    \/ Wakeup
    \/ ReadInbound
    \/ ReconnectStep

SpecInbound == Init /\ [][NextInbound]_vars

(* one packet taken through the store-header lines, the write and the read
   of its frame, for payloads of the lengths FrameLens; codec keeps the length
   and what each stage gave, the payload is Payload(n, seed) *)
FrameLens == (0..9) \cup {255, 256, 300, 65534, 65535, 65536, 65537}

Seeds == {0, 200}

Payload(n, seed) == [i \in 1..n |-> (i + seed) % 256]

CodecPkt == [id |-> 1, len |-> codec.n, hdr |-> codec.hdr,
             data |-> Payload(codec.n, codec.seed)]

CodecIdle == UNCHANGED <<sessVars, loopVars, evVars, logVars, entry>>

(* the host has a packet of n payload bytes to send *)
CodecQueue ==
    /\ codec = NULL
    /\ \E n \in FrameLens, seed \in Seeds :
         codec' = [stage |-> "queued", n |-> n, seed |-> seed, hdr |-> ZeroHdr, wn |-> 0,
                   verdict |-> "none", rlen |-> 0, rhdr |-> ZeroHdr, same |-> FALSE]
    /\ CodecIdle

(* the queue service dequeues it and stores the header *)
CodecEncode ==
    /\ codec # NULL
    /\ codec.stage = "queued"
    /\ LET this == ServiceNext(dtls_state, <<CodecPkt>>)
       IN  /\ this # NULL
           /\ codec' = [codec EXCEPT !.stage = "encoded", !.hdr = this.hdr]
    /\ CodecIdle

(* handle_outgoing writes it and the transport takes all of it *)
CodecWrite ==
    /\ codec # NULL
    /\ codec.stage = "encoded"
    /\ LET bytes == WriteBytes(CodecPkt)
       IN  /\ WriteVerdict(Len(bytes), CodecPkt) = "done"
           /\ codec' = [codec EXCEPT !.stage = "written", !.wn = Len(bytes)]
    /\ CodecIdle

(* the read phase reads the bytes that were written, in one read *)
CodecRead ==
    /\ codec # NULL
    /\ codec.stage = "written"
    /\ LET in == [k |-> "data", bytes |-> WriteBytes(CodecPkt)]
           len == ReadResult(in)
           buf1 == ReadInto(FreshBuf, SubSeq(in.bytes, 1, len))
           verdict == ReadVerdict(len, buf1.hdr)
       IN  codec' = [codec EXCEPT
                       !.stage = "read", !.verdict = verdict, !.rhdr = buf1.hdr,
                       !.rlen = IF verdict = "accept" THEN AcceptPacket(buf1).len ELSE 0,
                       !.same = (verdict = "accept"
                                 /\ AcceptPacket(buf1).data = Payload(codec.n, codec.seed))]
    /\ CodecIdle

NextCodec ==
    \/ CodecQueue
    \/ CodecEncode
    \/ CodecWrite
    \/ CodecRead

SpecCodec == Init /\ [][NextCodec]_vars

(* the main loop with the state each wake-up starts from recorded *)
WakeupMarked == WakeupWith(TRUE)

NextReconnect ==
    \/ InitialConnect
    \/ HostEnqueue
    \/ HostConsume
    \/ HostClose
    \/ WakeupMarked
    \/ ReadStep
    \/ WriteStep
    \/ ReconnectStep

SpecReconnect == Init /\ [][NextReconnect]_vars

(* the main loop on a transport that recovers: the parallel channel stays
   down, the peer sends well-formed frames only, a write fails, would block or
   is taken in full, a read finds nothing, fails or brings a frame, and every
   connection attempt is answered START_TUNNEL.  The host keeps waking the
   main loop, and every call the loop makes returns. *)
OkConnectInputs ==
    { [open_ret |-> 0, rd |-> [k |-> "data", bytes |-> S_START_TUNNEL],
       stale |-> Pad(<<>>, BufSize, NUL)] }

ConnectOk == ConnectWith(OkConnectInputs)

ReconnectOk == ReconnectWith(OkConnectInputs)

ReadLive ==
    ReadWith(QuietReads \cup { [k |-> "data", bytes |-> b] : b \in GoodFrames }, MaxInQ)

WriteLive == WriteWith({"err", "block", "full"})

WriteFull == WriteWith({"full"})

ReadNone == ReadWith({ [k |-> "none"] }, MaxInQ)

(* gpst_connect returns 0 to the caller; the reconnect returns 0 to the main
   loop, which returns 1 *)
ConnectReturns == pc = "start" /\ pc' = "idle"

ReconnectReturns == pc = "do_reconnect" /\ pc' = "idle"

NextLive ==
    \/ ConnectOk
    \/ HostEnqueue
    \/ HostConsume
    \/ Wakeup
    \/ ReadLive
    \/ WriteLive
    \/ ReconnectOk

SpecLive ==
    /\ Init
    /\ [][NextLive]_vars
    /\ WF_pc(ConnectReturns)
    /\ WF_pc(ReconnectReturns)
    /\ WF_vars(Wakeup)
    /\ WF_vars(ReadLive)
    /\ WF_vars(WriteLive)

(* the write side of the main loop with a clock that advances: the peer
   sends nothing *)
ReadQuiet == ReadWith(QuietReads, MaxInQ)

NextClock ==
    \/ InitialConnect
    \/ HostEnqueue
    \/ Tick
    \/ Wakeup
    \/ ReadQuiet
    \/ WriteStep
    \/ ReconnectStep

SpecClock == Init /\ [][NextClock]_vars

-----------------------------------------------------------------------------
(* The claims *)

Ids(q) == [i \in 1..Len(q) |-> q[i].id]

InFlight == IF current_ssl_pkt # NULL THEN <<current_ssl_pkt.id>> ELSE <<>>

(* the frame of a packet, written out: header bytes, then the payload *)
ExpectedFrame(p) ==
    <<26, 43, 60, 77, 8, 0, Len(p.data) \div 256, Len(p.data) % 256, 1, 0, 0, 0, 0, 0, 0, 0>>
    \o p.data

(* a frame that passes every header check *)
ValidFrame(b) ==
    /\ Len(b) >= 16
    /\ SubSeq(b, 1, 4) = <<26, 43, 60, 77>>
    /\ SubSeq(b, 5, 6) = <<8, 0>>
    /\ b[7] * 256 + b[8] = Len(b) - 16
    /\ SubSeq(b, 9, 16) = <<1, 0, 0, 0, 0, 0, 0, 0>>

(* C1: a write of the in-flight packet that returned 0 leaves the packet in
   the in-flight slot with its bytes as they were and dequeues nothing, and
   the attempt that follows a write that returned 0, in whatever wake-up, is
   made with the same packet, the same length and the same bytes. *)
C1_RetryInvariant ==
    /\ blocked # NULL =>
         /\ current_ssl_pkt # NULL
         /\ current_ssl_pkt.id = blocked.id
         /\ current_ssl_pkt.len + 16 = blocked.n
         /\ WriteBytes(current_ssl_pkt) = blocked.bytes
         /\ Len(deqlog) = blocked.ndeq
    /\ (lastWrite # NULL /\ lastWrite.prev # NULL) =>
         /\ lastWrite.id = lastWrite.prev.id
         /\ lastWrite.n = lastWrite.prev.n
         /\ lastWrite.bytes = lastWrite.prev.bytes

(* C1 witness: a retry after a would-block result has been written in full *)
C1_Witness ==
    /\ lastWrite # NULL
    /\ lastWrite.prev # NULL
    /\ lastWrite.res = lastWrite.n
    /\ lastWrite.n > 16

(* C2: every packet taken from the outbound queue has been reported fully
   written exactly once or is the one in flight; the packet in flight when a
   write failed and the reconnect succeeded stays in flight and is the first
   frame written on the new transport. *)
C2_NoLossNoDuplication ==
    /\ Ids(deqlog) = Ids(txlog) \o InFlight
    /\ \A i, j \in 1..Len(txlog) : txlog[i].id = txlog[j].id => i = j
    /\ carried # 0 =>
         IF firstTx = 0
         THEN current_ssl_pkt # NULL /\ current_ssl_pkt.id = carried
         ELSE firstTx = carried

(* C2 witness: the packet carried across a reconnect has been written in full
   on the new transport, after an earlier packet *)
C2_Witness ==
    /\ carried # 0
    /\ firstTx = carried
    /\ Len(txlog) >= 2
    /\ txlog[Len(txlog)].id = carried

(* C3: the frames reported fully written are, in order, the frames of the
   first packets enqueued, and every write call carries the header and the
   payload of exactly one packet. *)
C3_FifoOrder ==
    /\ Len(txlog) <= Len(enqlog)
    /\ \A i \in 1..Len(txlog) :
         /\ txlog[i].id = enqlog[i].id
         /\ txlog[i].bytes = ExpectedFrame(enqlog[i])
    /\ lastWrite # NULL =>
         /\ lastWrite.n = Len(lastWrite.bytes)
         /\ \E i \in 1..Len(enqlog) :
              /\ lastWrite.id = enqlog[i].id
              /\ lastWrite.bytes = ExpectedFrame(enqlog[i])

(* C3 witness: two frames are out, the second after a reconnect and a
   would-block result *)
C3_Witness ==
    /\ Len(txlog) >= 2
    /\ carried # 0
    /\ lastWrite # NULL
    /\ lastWrite.prev # NULL
    /\ lastWrite.res = lastWrite.n

(* C4: at most one dequeued packet awaits its write, it is the one in the
   in-flight slot, no packet is dequeued while the slot is occupied, and the
   packet in the slot is not in the outbound queue. *)
C4_SingleInFlight ==
    /\ ~deq_busy
    /\ Len(deqlog) - Len(txlog) = Len(InFlight)
    /\ current_ssl_pkt # NULL =>
         \A i \in 1..Len(outgoing_queue) : outgoing_queue[i].id # current_ssl_pkt.id

(* C4 witness: a packet was dequeued right after a full write, with another
   one still waiting in the queue *)
C4_Witness ==
    /\ svc # NULL
    /\ svc.took
    /\ svc.qlen >= 2
    /\ Len(txlog) >= 1
    /\ current_ssl_pkt # NULL

(* C5: no step of a wake-up made while dtls_state is DTLS_CONNECTED changes
   the outbound queue or puts a packet in the in-flight slot, and a write made
   in such a step is of the packet that was already in flight. *)
C5_Step ==
    (pc \in {"read", "handle_outgoing", "do_reconnect"} /\ dtls_state = "DTLS_CONNECTED") =>
        /\ outgoing_queue' = outgoing_queue
        /\ deqlog' = deqlog
        /\ current_ssl_pkt' \in {current_ssl_pkt, NULL}
        /\ lastWrite' # NULL =>
             /\ current_ssl_pkt # NULL
             /\ lastWrite'.id = current_ssl_pkt.id
             /\ lastWrite'.bytes = WriteBytes(current_ssl_pkt)

C5_SkipWhileDtlsConnected == [][C5_Step]_vars

(* C5 witness: the queue service test was made with DTLS connected and
   packets waiting, and the wake-up returned *)
C5_Witness ==
    /\ svc # NULL
    /\ svc.dtls = "DTLS_CONNECTED"
    /\ svc.qlen > 0
    /\ ~svc.took
    /\ outgoing_queue # <<>>
    /\ pc = "idle"

-----------------------------------------------------------------------------
(* The claims about gpst_connect *)

ValuesOf(store, option) ==
    {store[i].value : i \in {k \in 1..Len(store) : store[k].option = option}}

(* the tunnel paths, addresses and mtus the cookie store allows *)
ExpectedPath == IF HasCookie(cookies, S_TUNNEL) THEN ValuesOf(cookies, S_TUNNEL)
                ELSE {<<"/","s","s","l","-","t","u","n","n","e","l","-","c","o","n","n","e","c","t",
                        ".","s","s","l","v","p","n">>}

ExpectedIP == IF HasCookie(cookies, S_IP) THEN ValuesOf(cookies, S_IP)
              ELSE {<<"0",".","0",".","0",".","0">>}

MtuOf(v) ==
    CASE v = <<"1","4","0","0">> -> 1400
      [] v = <<"0">> -> 1500
      [] v = <<"-","5">> -> 1500

ExpectedMtu == IF HasCookie(cookies, S_MTU) THEN {MtuOf(v) : v \in ValuesOf(cookies, S_MTU)}
               ELSE {1500}

BeginsWith(s, prefix) == Len(s) >= Len(prefix) /\ SubSeq(s, 1, Len(prefix)) = prefix

(* C6: every failure of gpst_connect after the transport was opened leaves
   the transport closed, and the transport is registered for monitoring only
   when gpst_connect succeeds. *)
C6_TeardownOnFailure ==
    last_connect.called =>
        /\ (last_connect.opened /\ last_connect.ret # 0) => last_connect.fd_after = -1
        /\ last_connect.registered => last_connect.ret = 0

(* C7: a handshake read of 0 bytes makes gpst_connect fail with -EPIPE. *)
C7_ZeroLengthIsPeerClosed ==
    (last_connect.called /\ last_connect.stage = "classified" /\ last_connect.rd = 0) =>
        /\ last_connect.ret = 0 - EPIPE
        /\ last_connect.err = "PeerClosed"

(* C8: on a non-empty response gpst_connect succeeds exactly when the
   response begins with START_TUNNEL, and then sets addr, netmask and mtu;
   a response beginning with HTTP/ gives the gateway HTTP error, any other
   the unexpected-response error, and a failure leaves ip_info as it was. *)
C8_ResponseClassification ==
    (last_connect.called /\ last_connect.stage = "classified" /\ last_connect.rd > 0) =>
        LET starts == BeginsWith(last_connect.resp, S_START_TUNNEL)
            http == BeginsWith(last_connect.resp, S_HTTP)
        IN  /\ (last_connect.ret = 0) <=> starts
            /\ starts => /\ ip_info.addr \in ExpectedIP
                         /\ ip_info.netmask = <<"2","5","5",".","2","5","5",".","2","5","5",".","2","5","5">>
                         /\ ip_info.mtu \in ExpectedMtu
            /\ (~starts /\ http) => last_connect.err = "GatewayHttpError"
            /\ (~starts /\ ~http) => last_connect.err = "UnexpectedResponse"
            /\ last_connect.ret # 0 => ip_info = last_connect.ip_before

(* C9: without USER or without AUTH in the cookie store gpst_connect returns
   -EINVAL with the transport not opened and nothing sent, for the missing
   credentials once the cookie string has parsed; with both, the tunnel path,
   the address and the mtu are the cookie's or /ssl-tunnel-connect.sslvpn,
   0.0.0.0 and 1500, and an MTU cookie of 0 or -5 gives 1500. *)
C9_CredentialsAndDefaults ==
    last_connect.called =>
        LET lc == last_connect
            both == HasCookie(cookies, S_USER) /\ HasCookie(cookies, S_AUTH)
        IN  /\ ~both =>
                 /\ lc.ret = 0 - EINVAL
                 /\ ~lc.opened
                 /\ lc.sent = NoText
                 /\ lc.fd_after = -1
                 /\ lc.stage # "parse" => lc.err = "MissingCredentials"
            /\ (both /\ lc.stage # "parse") =>
                 /\ lc.stage # "credentials"
                 /\ lc.locals.tunnel_path \in ExpectedPath
                 /\ lc.locals.ipaddr \in ExpectedIP
                 /\ lc.locals.mtu \in ExpectedMtu
                 /\ lc.opened =>
                      BeginsWith(lc.sent, <<"G","E","T"," ">> \o lc.locals.tunnel_path \o <<"?">>)
                 /\ lc.ret = 0 => (ip_info.addr \in ExpectedIP /\ ip_info.mtu \in ExpectedMtu)

(* C9 witness: a connection made with an MTU cookie of -5 has mtu 1500 *)
C9_Witness ==
    /\ last_connect.called
    /\ last_connect.ret = 0
    /\ HasCookie(cookies, S_MTU)
    /\ ValuesOf(cookies, S_MTU) = {<<"-","5">>}
    /\ ip_info.mtu = 1500

-----------------------------------------------------------------------------
(* C10: a step that reads 1 to 15 bytes, reads a frame that fails a header
   check, or writes a positive count other than len + 16, sets a quit reason
   and returns 1 with no gpst_connect call, nothing pushed on the inbound
   queue and nothing dequeued or reported written; and no call is made on a
   session so ended. *)
TerminalRead(r) == r # NULL /\ r.res > 0 /\ (r.res < 16 \/ ~ValidFrame(r.bytes))

TerminalWrite(w) == w # NULL /\ w.res > 0 /\ w.res # w.n

TerminalReasons == {"Short packet received", "Unknown packet received", "Internal error"}

C10_Step ==
    /\ (TerminalRead(lastRead') \/ TerminalWrite(lastWrite')) =>
         /\ quit_reason' \in TerminalReasons
         /\ pc' = "idle"
         /\ mainloop_ret' = [v |-> 1]
         /\ last_connect' = NoCall
         /\ ssl_fd' = ssl_fd
         /\ incoming_queue' = incoming_queue
         /\ outgoing_queue' = outgoing_queue
         /\ deqlog' = deqlog
         /\ txlog' = txlog
    /\ quit_reason \in TerminalReasons => UNCHANGED vars

C10_TerminalConditions == [][C10_Step]_vars

(* C10 witness: the session ended on a bad frame with a packet waiting that
   the queue service would have taken *)
C10_Witness ==
    /\ pc = "idle"
    /\ quit_reason = "Unknown packet received"
    /\ TerminalRead(lastRead)
    /\ lastRead.res >= 16
    /\ outgoing_queue # <<>>
    /\ current_ssl_pkt = NULL
    /\ dtls_state # "DTLS_CONNECTED"

-----------------------------------------------------------------------------
(* C11: a step that reads or writes a negative result, or enters with
   ssl_fd = -1, goes to do_reconnect; the step taken there makes the one
   reconnect call of the wake-up and returns, with the quit reason set and the
   failure returned when the call failed, with 1 when it succeeded, and with no
   read and no write; no other step of a wake-up calls gpst_connect. *)
FatalEvent ==
    \/ pc = "idle" /\ pc' # "idle" /\ ssl_fd = -1
    \/ lastRead' # NULL /\ lastRead'.res < 0
    \/ lastWrite' # NULL /\ lastWrite'.res < 0

C11_Step ==
    /\ FatalEvent => (pc' = "do_reconnect" /\ last_connect' = NoCall)
    /\ (pc # "do_reconnect" /\ pc' = "do_reconnect") => FatalEvent
    /\ pc = "do_reconnect" =>
         /\ last_connect'.called
         /\ last_connect'.by \in {"write", "read", "closed"}
         /\ pc' = "idle"
         /\ lastRead' = NULL
         /\ lastWrite' = NULL
         /\ ssl_times' = ssl_times
         /\ IF last_connect'.ret = 0
            THEN mainloop_ret' = [v |-> 1] /\ quit_reason' = quit_reason
            ELSE /\ mainloop_ret' = [v |-> last_connect'.ret]
                 /\ last_connect'.ret < 0
                 /\ quit_reason' = "GPST reconnect failed"
    /\ pc \in {"idle", "read", "handle_outgoing"} => last_connect' = NoCall

C11_ReconnectDispatch == [][C11_Step]_vars

(* C11 witness: the reconnect made after a write error failed and the
   wake-up returned the failure *)
C11_Witness ==
    /\ pc = "idle"
    /\ last_connect.called
    /\ last_connect.by = "write"
    /\ last_connect.ret < 0
    /\ mainloop_ret = [v |-> last_connect.ret]
    /\ quit_reason = "GPST reconnect failed"
    /\ current_ssl_pkt # NULL

-----------------------------------------------------------------------------
(* C12: every packet on the inbound queue has a header that passes all
   checks and a recorded length equal to its payload; the inbound queue
   changes only by the host taking its head or by the packet of a read of
   n >= 16 valid bytes being appended, with len the declared length; such a
   read always appends; last_rx changes only in such a step. *)
Accepted(r) == r # NULL /\ r.res >= 16 /\ r.res = Len(r.bytes) /\ ValidFrame(r.bytes)

PacketOf(b) == [hdr |-> SubSeq(b, 1, 16), data |-> SubSeq(b, 17, Len(b)),
                len |-> b[7] * 256 + b[8]]

C12_Step ==
    /\ \A i \in 1..Len(incoming_queue) :
         /\ ValidFrame(incoming_queue[i].hdr \o incoming_queue[i].data)
         /\ incoming_queue[i].len = Len(incoming_queue[i].data)
    /\ incoming_queue' # incoming_queue =>
         \/ pc = "idle" /\ incoming_queue' = Tail(incoming_queue)
         \/ Accepted(lastRead')
    /\ Accepted(lastRead') =>
         /\ incoming_queue' = Append(incoming_queue, PacketOf(lastRead'.bytes))
         /\ PacketOf(lastRead'.bytes).len = lastRead'.res - 16
         /\ ssl_times'.last_rx = now
    /\ ssl_times'.last_rx # ssl_times.last_rx => Accepted(lastRead')

C12_InboundValidityAndOrder == [][C12_Step]_vars

(* C12 witness: two different frames wait in the order they were read, the
   second read after the clock advanced *)
C12_Witness ==
    /\ Len(incoming_queue) = 2
    /\ incoming_queue[1] # incoming_queue[2]
    /\ Accepted(lastRead)
    /\ incoming_queue[2] = PacketOf(lastRead.bytes)
    /\ ssl_times.last_rx = 1

-----------------------------------------------------------------------------
(* C13: last_tx changes only in a step where the write of the in-flight
   packet returns len + 16. *)
C13_Step ==
    ssl_times'.last_tx # ssl_times.last_tx =>
        (lastWrite' # NULL /\ lastWrite'.res = lastWrite'.n)

C13_LastSendOnFullWrite == [][C13_Step]_vars

-----------------------------------------------------------------------------
(* C14: the wake-up whose write failed and whose reconnect succeeded returns
   1, and the wake-up that then writes the retained packet in full, first on
   the new transport, returns a non-zero value. *)
C14_SignalAcrossReconnect ==
    /\ (pc = "idle" /\ last_connect.called /\ last_connect.by = "write"
          /\ last_connect.ret = 0) =>
         mainloop_ret = [v |-> 1]
    /\ (pc = "idle" /\ mainloop_ret # NULL /\ lastWrite # NULL /\ lastWrite.prev = NULL
          /\ carried # 0 /\ firstTx = carried /\ lastWrite.id = carried
          /\ lastWrite.res = lastWrite.n) =>
         mainloop_ret.v # 0

-----------------------------------------------------------------------------
(* C15: a packet whose payload is longer than 65535 bytes gets no header and
   is not written, and the length field of every frame handed to the
   transport equals the number of payload bytes that follow the header. *)
C15_EncodeRejectsOversized ==
    codec # NULL =>
        /\ codec.n > 65535 => codec.stage = "queued"
        /\ codec.stage \in {"written", "read"} =>
             codec.hdr[7] * 256 + codec.hdr[8] = codec.wn - 16

(* C16: the frame written for a payload of at most 65535 bytes is the header
   with that length followed by the payload, and the read phase reading it
   whole accepts it and queues a packet with ethertype 0x0800 in its header,
   the length of the payload and the payload. *)
C16_FrameRoundTrip ==
    (codec # NULL /\ codec.n <= 65535) =>
        /\ codec.stage \in {"written", "read"} =>
             /\ codec.wn = codec.n + 16
             /\ codec.hdr = <<26, 43, 60, 77, 8, 0, codec.n \div 256, codec.n % 256,
                              1, 0, 0, 0, 0, 0, 0, 0>>
        /\ codec.stage = "read" =>
             /\ codec.verdict = "accept"
             /\ codec.rlen = codec.n
             /\ codec.same
             /\ SubSeq(codec.rhdr, 5, 6) = <<8, 0>>

(* C16 witness: the frame of a 65535-byte payload was read back *)
C16_Witness ==
    /\ codec # NULL
    /\ codec.stage = "read"
    /\ codec.n = 65535
    /\ codec.same

-----------------------------------------------------------------------------
(* C17: a gpst_connect that finds the cookie store non-empty does not parse
   the cookie string and leaves the store and the string as they were; no key
   is twice in the store, and of USER=a;USER=b the store keeps USER=a. *)
C17_CookiesNeverOverwritten ==
    last_connect.called =>
        /\ last_connect.cookies_before # <<>> =>
             /\ last_connect.stage # "parse"
             /\ cookies = last_connect.cookies_before
             /\ cookie = last_connect.cookie_before
        /\ \A i, j \in 1..Len(cookies) : cookies[i].option = cookies[j].option => i = j
        /\ (last_connect.stage # "parse"
              /\ cookie = <<"U","S","E","R","=","a",";","U","S","E","R","=","b",";",
                            "A","U","T","H","=","t">>) =>
             ValuesOf(cookies, S_USER) = {<<"a">>}

(* C17 witness: a second connect on the session whose cookie string names
   USER twice found the store filled and left USER=a *)
C17_Witness ==
    /\ last_connect.called
    /\ last_connect.cookies_before # <<>>
    /\ cookie = C_Twice
    /\ ValuesOf(cookies, S_USER) = {<<"a">>}

(* C18: a gpst_connect that fails in parse_cookie leaves the cookie store and
   the raw cookie string as they were before the call. *)
C18_FailedParseChangesNothing ==
    (last_connect.called /\ last_connect.err = "MalformedCookie") =>
        /\ cookies = last_connect.cookies_before
        /\ cookie = last_connect.cookie_before

-----------------------------------------------------------------------------
IsPrefix(a, b) == Len(a) <= Len(b) /\ SubSeq(b, 1, Len(a)) = a

IsSuffix(a, b) == Len(a) <= Len(b) /\ SubSeq(b, Len(b) - Len(a) + 1, Len(b)) = a

EndedInReconnect == pc = "idle" /\ entry # NULL /\ last_connect.called

(* C19 as stated: a wake-up that ended in the reconnect path left the outbound
   queue and the in-flight slot as it found them, and the inbound queue with
   what it held and what the wake-up accepted. *)
C19_WakeupLeavesWorkUnchanged ==
    EndedInReconnect =>
        /\ outgoing_queue = entry.oq
        /\ current_ssl_pkt = entry.slot
        /\ IsPrefix(entry.iq, incoming_queue)

(* C19 amended: the step that enters the reconnect path and the reconnect
   itself change neither queue nor the in-flight slot; a wake-up that entered
   the path at entry or after a read error left the outbound queue and the
   slot as it found them; one that entered it after a write error holds the
   packet of that write in the slot, wrote in full every packet it took before
   it, and left the rest of the outbound queue in order; the inbound queue
   keeps what it held and what the wake-up accepted. *)
C19_Step ==
    /\ (pc' = "do_reconnect" \/ pc = "do_reconnect") =>
         /\ outgoing_queue' = outgoing_queue
         /\ current_ssl_pkt' = current_ssl_pkt
         /\ incoming_queue' = incoming_queue
    /\ EndedInReconnect =>
         /\ IsPrefix(entry.iq, incoming_queue)
         /\ last_connect.by \in {"closed", "read"} =>
              (outgoing_queue = entry.oq /\ current_ssl_pkt = entry.slot)
         /\ last_connect.by = "write" =>
              /\ current_ssl_pkt # NULL
              /\ LET found == (IF entry.slot # NULL THEN <<entry.slot.id>> ELSE <<>>)
                                \o Ids(entry.oq)
                     left == <<current_ssl_pkt.id>> \o Ids(outgoing_queue)
                 IN  /\ IsSuffix(left, found)
                     /\ \A k \in 1..(Len(found) - Len(left)) :
                          \E i \in 1..Len(txlog) : txlog[i].id = found[k]

C19_ReconnectPreservesWork == [][C19_Step]_vars

(* C19 witness: a wake-up accepted a packet, wrote one, dequeued the next,
   failed to write it and reconnected *)
C19_Witness ==
    /\ EndedInReconnect
    /\ last_connect.by = "write"
    /\ last_connect.ret = 0
    /\ outgoing_queue # entry.oq
    /\ Len(incoming_queue) > Len(entry.iq)
    /\ Len(txlog) >= 1

-----------------------------------------------------------------------------
(* the packet the host queued k-th has been written in full *)
Written(k) == \E i \in 1..Len(txlog) : txlog[i].id = k

(* every packet put on the outbound queue is in the end written in full, and
   an occupied in-flight slot is in the end empty *)
EveryPacketWritten ==
    /\ \A k \in 1..MaxEnq : (Len(enqlog) >= k) ~> Written(k)
    /\ (current_ssl_pkt # NULL) ~> (current_ssl_pkt = NULL)

(* a write that is attempted again and again is in the end taken in full *)
WritesAccepted == SF_vars(WriteFull)

(* a read phase that is entered again and again in the end finds nothing to
   read, instead of failing or receiving at every wake-up *)
ReadsGoQuiet == SF_vars(ReadNone)

(* a wake-up returns after a read phase or a full write only with the
   outbound queue and the in-flight slot empty *)
C20_Step ==
    (/\ pc \in {"read", "handle_outgoing"}
     /\ pc' = "idle"
     /\ lastWrite' = NULL \/ lastWrite'.res = lastWrite'.n) =>
        (outgoing_queue' = <<>> /\ current_ssl_pkt' = NULL)

(* C20 as stated: with the parallel channel down, no terminal condition, every
   reconnect succeeding and the main loop woken again and again, if the
   transport in the end takes every write in full then every packet put on
   the outbound queue is in the end written in full and the in-flight slot is
   in the end empty.  A read that fails at every wake-up sends each wake-up
   to the reconnect before its write phase, and nothing is written. *)
C20_ProgressAsStated == WritesAccepted => EveryPacketWritten

(* C20: with the parallel channel down, no terminal condition, every reconnect
   succeeding and the main loop woken again and again, if the transport in
   the end takes every write in full and the read phase in the end finds
   nothing to read, then every packet put on the outbound queue is in the end
   written in full and the in-flight slot is in the end empty; and a single
   wake-up keeps dequeuing and writing until the queue is empty or a write
   does not complete. *)
C20_OutboundProgress ==
    /\ (WritesAccepted /\ ReadsGoQuiet) => EveryPacketWritten
    /\ [][C20_Step]_vars

(* C20 witness: every packet is out, after would-block results and a
   reconnect, and the slot is empty *)
C20_Witness ==
    /\ Len(enqlog) >= 2
    /\ Len(txlog) = Len(enqlog)
    /\ current_ssl_pkt = NULL
    /\ outgoing_queue = <<>>
    /\ carried # 0
    /\ lastWrite # NULL
    /\ lastWrite.prev # NULL

=============================================================================
